---- MODULE Spec2Model ----
(***************************************************************************)
(* Model of the Iceberg REST catalog service of src/main.py: a FastAPI    *)
(* application whose handlers delegate to one process-wide pyiceberg      *)
(* SqlCatalog (src/main.py:44-59).  Handlers are plain `def` functions,   *)
(* so the framework runs them on a thread pool: requests of different     *)
(* clients interleave at the granularity of the catalog calls.  The        *)
(* workers of the pool are interchangeable.                                *)
(*                                                                         *)
(* Each catalog call is one SQL transaction and is modelled as one atomic *)
(* step, except catalog._commit_table, which reads the binding, validates *)
(* and applies in memory, and later compare-and-swaps the binding (the    *)
(* CommitFailedException the handler catches at src/main.py:455).         *)
(*                                                                         *)
(* Strings are sequences of one-character strings, so that splitting a    *)
(* path on the separator and joining parts with "." are computed and not  *)
(* assumed.  A metadata location is the index of the metadata file in     *)
(* `files`; 0 stands for "no location" (None / no row).  Metadata files   *)
(* that are written but never bound (the file a failed create or a lost   *)
(* commit leaves behind) are referenced by no binding and returned in no  *)
(* response; they are not recorded.  The exceptions of the catalog calls  *)
(* are those the handlers' except clauses name; an exception no clause    *)
(* names leaves the handler as a 500 response.                            *)
(***************************************************************************)
EXTENDS Integers, Sequences, FiniteSets, TLC

\* ------------------------------------------------------------ bounds
\* The worker threads that serve requests.
Clients == { 1, 2 }

\* Number of metadata files recorded.
MaxLoc == 2

\* Number of parts of a namespace and number of characters of a part, for
\* the part lists whose paths are parsed.
MaxParts == 2

MaxPartLen == 2

\* ------------------------------------------------------------ strings
\* The unit separator byte 0x1F, written as the one-character token "US".
NAMESPACE_SEPARATOR == "US"

RECURSIVE SplitFrom(_, _, _)
SplitFrom(s, sep, cur) ==
    IF s = << >> THEN << cur >>
    ELSE IF Head(s) = sep THEN << cur >> \o SplitFrom(Tail(s), sep, << >>)
    ELSE SplitFrom(Tail(s), sep, Append(cur, Head(s)))

\* str.split(sep): always at least one part; parts may be empty.
Split(s, sep) == SplitFrom(s, sep, << >>)

RECURSIVE Join(_, _)
Join(parts, sep) ==
    IF parts = << >> THEN << >>
    ELSE IF Len(parts) = 1 THEN parts[1]
    ELSE parts[1] \o << sep >> \o Join(Tail(parts), sep)

\* A namespace_tuple that takes the whole path for one part.
namespace_tuple_unsplit(path) == << path >>

\* tuple(namespace.split(NAMESPACE_SEPARATOR))
namespace_tuple(path) == Split(path, NAMESPACE_SEPARATOR)

\* The catalog stores a namespace under the "."-join of its parts.
namespace_to_string(parts) == Join(parts, ".")

\* identifier = (*namespace_tuple, name), as the catalog keys it:
\* << namespace string, table name >>.
path_identifier(path, name) == << namespace_to_string(namespace_tuple(path)), name >>

\* ------------------------------------------------------------ universes
\* Namespace paths, part lists and table names that requests carry.
Paths == { << "a" >>, << "b" >> }

NsLists == { << << "a" >> >>, << << "b" >> >> }

Names == { << "t" >> }

NsStrings == { namespace_to_string(namespace_tuple(p)) : p \in Paths }

Idents == NsStrings \X Names

\* Snapshot ids that requests name; 0 stands for no current snapshot.
Snaps == { 1 }

NoLoc == 0

\* ------------------------------------------------------------ state
VARIABLES
    namespaces,   \* rows of the namespace table: namespace string -> properties
    tables,       \* rows of the table table: identifier -> metadata location
    files,        \* metadata files: location -> table metadata
    pc,           \* per client: position of its in-flight handler
    frame,        \* per client: locals of its in-flight handler
    last          \* the response most recently returned to a client

vars == << namespaces, tables, files, pc, frame, last >>

NoFrame == [id |-> << >>, base |-> NoLoc, upds |-> << >>, touched |-> FALSE,
            renamed |-> FALSE]

\* A property map is a function from its keys to their values.
NoProperties == [k \in {} |-> ""]

NoNamespaces == [ns \in {} |-> NoProperties]

NoResp == [op |-> "none", code |-> 0, error |-> "",
           id |-> << >>, loc |-> NoLoc, arg |-> << >>]

\* A response: the handler, the HTTP status, the exception behind it ("" on
\* success), the identifier the catalog was called with, the metadata
\* location returned (NoLoc for null or no body) and request details.
Resp(op, code, error, id, loc, arg) ==
    [op |-> op, code |-> code, error |-> error,
     id |-> id, loc |-> loc, arg |-> arg]

\* catalog.destroy_tables(); catalog.create_tables()
Init ==
    /\ namespaces = NoNamespaces
    /\ tables = [i \in Idents |-> NoLoc]
    /\ files = << >>
    /\ pc = [c \in Clients |-> "idle"]
    /\ frame = [c \in Clients |-> NoFrame]
    /\ last = NoResp

\* A request is served by the first worker that is free.
Free(c) ==
    /\ pc[c] = "idle"
    /\ \A d \in Clients : d < c => pc[d] # "idle"

\* Cap on the number of metadata files: a step that records a new one is
\* taken only while there is room for it.
Room == Len(files) < MaxLoc

\* History: this step replaces the rows by `rows`; every commit in flight
\* on an identifier whose binding differs in them notes it.
Touch(rows) ==
    [c \in Clients |->
        IF pc[c] = "publish" /\ rows[frame[c].id] # tables[frame[c].id]
        THEN [frame[c] EXCEPT !.touched = TRUE] ELSE frame[c]]

\* History: this step renames the table `source` away; every commit in
\* flight on it notes that as well.
TouchRenamed(rows, source) ==
    [c \in Clients |->
        IF pc[c] = "publish" /\ frame[c].id = source /\ rows[source] # tables[source]
        THEN [Touch(rows)[c] EXCEPT !.renamed = TRUE] ELSE Touch(rows)[c]]

\* ------------------------------------------------------------ metadata
\* Table metadata: the current snapshot id (0 for none).
new_table_metadata == [snap |-> 0]

AssertCreate == [type |-> "assert-create", snap |-> 0]

AssertRefSnapshotId(s) == [type |-> "assert-ref-snapshot-id", snap |-> s]

SetSnapshotRef(s) == [action |-> "set-snapshot-ref", snap |-> s]

\* A validation that checks assert-create only.
requirement_unchecked(r, base) == r.type # "assert-create"

\* requirement.validate(base_metadata) of a table that exists: assert-create
\* fails because the table exists; assert-ref-snapshot-id compares the
\* current snapshot id.
requirement_holds(r, base) ==
    IF r.type = "assert-create" THEN FALSE
    ELSE r.snap = base.snap

\* for requirement in requirements: requirement.validate(base_metadata)
validate(reqs, base) ==
    \A k \in 1..Len(reqs) : requirement_holds(reqs[k], base)

SetCurrentSchema(id) == [action |-> "set-current-schema", schema |-> id]

\* An update of a kind the request model does not know.
UnknownUpdate == [action |-> "unknown"]

\* The schema ids of a table's metadata: the schema it was created with.
schema_ids(meta) == { 0 }

\* One update applied: set-snapshot-ref moves the current snapshot,
\* set-current-schema of a schema the metadata holds changes nothing here.
apply_update(meta, u) ==
    IF u.action = "set-snapshot-ref" THEN [meta EXCEPT !.snap = u.snap] ELSE meta

\* Updates are applied left to right, each to the result of the one before.
RECURSIVE update_table_metadata(_, _)
update_table_metadata(base, upds) ==
    IF upds = << >> THEN base
    ELSE update_table_metadata(apply_update(base, Head(upds)), Tail(upds))

\* An application that skips what it cannot apply.
updates_apply_leniently(base, upds) == TRUE

\* Whether update_table_metadata gets through the list: set-current-schema
\* raises ValueError for a schema id the metadata built so far does not hold.
RECURSIVE updates_apply(_, _)
updates_apply(base, upds) ==
    IF upds = << >> THEN TRUE
    ELSE /\ Head(upds).action = "set-current-schema"
               => Head(upds).schema \in schema_ids(base)
         /\ updates_apply(apply_update(base, Head(upds)), Tail(upds))

\* Requirement and update lists that requests carry.
ReqLists ==
    { << >>, << AssertCreate >> } \cup { << AssertRefSnapshotId(s) >> : s \in { 0 } \cup Snaps }

UpdLists == { << >> } \cup { << SetSnapshotRef(s) >> : s \in Snaps }

\* Update lists with an update that cannot be applied or is of no known
\* kind, alone or after an update that can.
InvalidUpdLists ==
    { << SetCurrentSchema(1) >>,
      << SetSnapshotRef(1), SetCurrentSchema(1) >>,
      << SetSnapshotRef(1), UnknownUpdate >> }

KnownActions == { "set-snapshot-ref", "set-current-schema" }

\* ------------------------------------------------------------ namespaces
\* The catalog keeps a namespace as the rows of its properties; one created
\* with no property is kept as this row.
NAMESPACE_MINIMAL_PROPERTIES == [k \in { "exists" } |-> "true"]

\* The rows catalog.create_namespace writes for the properties of a request.
create_properties(properties) ==
    IF properties = NoProperties THEN NAMESPACE_MINIMAL_PROPERTIES ELSE properties

\* A create_namespace that writes its rows whether or not there are some.
create_namespace_overwriting(c, nsl, properties) ==
    LET ns == namespace_to_string(nsl) IN
    /\ Free(c)
    /\ namespaces' = [n \in DOMAIN namespaces \cup { ns } |->
                         IF n = ns THEN create_properties(properties) ELSE namespaces[n]]
    /\ last' = Resp("create_namespace", 200, "", << ns >>, NoLoc,
                            [namespace |-> nsl, properties |-> properties])
    /\ UNCHANGED << tables, files, pc, frame >>

\* create_namespace: the parts and the properties of the body go to
\* catalog.create_namespace and come back in the response.
create_namespace(c, nsl, properties) ==
    LET ns == namespace_to_string(nsl) IN
    /\ Free(c)
    /\ IF ns \in DOMAIN namespaces
       THEN /\ last' = Resp("create_namespace", 409, "NamespaceAlreadyExists", << ns >>, NoLoc, << >>)
            /\ UNCHANGED namespaces
       ELSE /\ namespaces' = [n \in DOMAIN namespaces \cup { ns } |->
                                IF n = ns THEN create_properties(properties) ELSE namespaces[n]]
            /\ last' = Resp("create_namespace", 200, "", << ns >>, NoLoc,
                            [namespace |-> nsl, properties |-> properties])
    /\ UNCHANGED << tables, files, pc, frame >>

\* identifier_to_tuple: the parts of a namespace string.
identifier_to_tuple(ns) == Split(ns, ".")

\* The namespace store's children of a namespace: the stored namespaces
\* that have its parts as a proper prefix.
namespace_children(rows, parts) ==
    { n \in DOMAIN rows :
        /\ Len(identifier_to_tuple(n)) > Len(parts)
        /\ SubSeq(identifier_to_tuple(n), 1, Len(parts)) = parts }

\* A drop_namespace that does not look at what the namespace holds.
drop_namespace_unchecked(c, path) ==
    LET ns == namespace_to_string(namespace_tuple(path)) IN
    /\ Free(c)
    /\ IF ns \notin DOMAIN namespaces
       THEN /\ last' = Resp("drop_namespace", 404, "NoSuchNamespace", << ns >>, NoLoc, << >>)
            /\ UNCHANGED namespaces
       ELSE /\ namespaces' = [n \in DOMAIN namespaces \ { ns } |-> namespaces[n]]
            /\ last' = Resp("drop_namespace", 200, "", << ns >>, NoLoc, << >>)
    /\ UNCHANGED << tables, files, pc, frame >>

drop_namespace(c, path) ==
    LET ns == namespace_to_string(namespace_tuple(path)) IN
    /\ Free(c)
    /\ IF ns \notin DOMAIN namespaces
       THEN /\ last' = Resp("drop_namespace", 404, "NoSuchNamespace", << ns >>, NoLoc, << >>)
            /\ UNCHANGED namespaces
       ELSE IF \/ \E i \in Idents : i[1] = ns /\ tables[i] # NoLoc
               \/ namespace_children(namespaces, namespace_tuple(path)) # {}
       THEN /\ last' = Resp("drop_namespace", 409, "NamespaceNotEmpty", << ns >>, NoLoc, << >>)
            /\ UNCHANGED namespaces
       ELSE /\ namespaces' = [n \in DOMAIN namespaces \ { ns } |-> namespaces[n]]
            /\ last' = Resp("drop_namespace", 200, "", << ns >>, NoLoc, << >>)
    /\ UNCHANGED << tables, files, pc, frame >>

\* The parent query parameter: absent, or a string.
NoParent == [present |-> FALSE, value |-> << >>]

Parent(str) == [present |-> TRUE, value |-> str]

\* tuple() if parent is None else tuple(parent.split(NAMESPACE_SEPARATOR))
parent_tuple(parent) ==
    IF ~parent.present THEN << >> ELSE Split(parent.value, NAMESPACE_SEPARATOR)

\* The namespace store's list(parent): the stored namespaces one part longer
\* than parent that have parent as their prefix.
namespace_list(rows, parts) ==
    { identifier_to_tuple(n) :
        n \in { m \in namespace_children(rows, parts) :
                  Len(identifier_to_tuple(m)) = Len(parts) + 1 } }

\* A list_namespaces that lists from the root whatever the parent.
list_namespaces_from_root(c, parent) ==
    /\ Free(c)
    /\ last' = Resp("list_namespaces", 200, "", << >>, NoLoc,
                    [parent |-> parent_tuple(parent),
                     namespaces |-> namespace_list(namespaces, << >>)])
    /\ UNCHANGED << namespaces, tables, files, pc, frame >>

list_namespaces(c, parent) ==
    LET parts == parent_tuple(parent) IN
    /\ Free(c)
    /\ IF parts # << >> /\ namespace_to_string(parts) \notin DOMAIN namespaces
       THEN last' = Resp("list_namespaces", 404, "NoSuchNamespace", << >>, NoLoc,
                         [parent |-> parts, namespaces |-> {}])
       ELSE last' = Resp("list_namespaces", 200, "", << >>, NoLoc,
                         [parent |-> parts,
                          namespaces |-> namespace_list(namespaces, parts)])
    /\ UNCHANGED << namespaces, tables, files, pc, frame >>

\* load_namespace_metadata: the response carries the parts the path was
\* split into and the stored properties.
load_namespace_metadata(c, path) ==
    LET ns == namespace_to_string(namespace_tuple(path)) IN
    /\ Free(c)
    /\ IF ns \notin DOMAIN namespaces
       THEN last' = Resp("load_namespace_metadata", 404, "NoSuchNamespace", << ns >>, NoLoc,
                         [namespace |-> namespace_tuple(path), properties |-> NoProperties])
       ELSE last' = Resp("load_namespace_metadata", 200, "", << ns >>, NoLoc,
                         [namespace |-> namespace_tuple(path), properties |-> namespaces[ns]])
    /\ UNCHANGED << namespaces, tables, files, pc, frame >>

\* The namespace store's updateProperties: the properties after removals
\* and updates, and the summary of what they did.
updated_properties(props, removals, updates) ==
    [k \in (DOMAIN props \ removals) \cup DOMAIN updates |->
        IF k \in DOMAIN updates THEN updates[k] ELSE props[k]]

properties_update_summary(props, removals, updates) ==
    [updated |-> { k \in DOMAIN updates : k \notin DOMAIN props \/ props[k] # updates[k] },
     removed |-> removals \cap DOMAIN props,
     missing |-> removals \ DOMAIN props]

\* An update_namespace_properties that hands no removals to the catalog.
update_namespace_properties_no_removals(c, path, removals, updates) ==
    LET ns == namespace_to_string(namespace_tuple(path)) IN
    /\ Free(c)
    /\ IF ns \notin DOMAIN namespaces
       THEN /\ last' = Resp("update_namespace_properties", 404, "NoSuchNamespace",
                            << ns >>, NoLoc, << >>)
            /\ UNCHANGED namespaces
       ELSE /\ namespaces' = [namespaces EXCEPT ![ns] = updated_properties(@, {}, updates)]
            /\ last' = Resp("update_namespace_properties", 200, "", << ns >>, NoLoc,
                            properties_update_summary(namespaces[ns], {}, updates))
    /\ UNCHANGED << tables, files, pc, frame >>

\* update_namespace_properties: a key both removed and updated makes the
\* catalog raise a ValueError, which no except clause names.
update_namespace_properties(c, path, removals, updates) ==
    LET ns == namespace_to_string(namespace_tuple(path)) IN
    /\ Free(c)
    /\ IF ns \notin DOMAIN namespaces
       THEN /\ last' = Resp("update_namespace_properties", 404, "NoSuchNamespace",
                            << ns >>, NoLoc, << >>)
            /\ UNCHANGED namespaces
       ELSE IF removals \cap DOMAIN updates # {}
       THEN /\ last' = Resp("update_namespace_properties", 500, "ValueError",
                            << ns >>, NoLoc, << >>)
            /\ UNCHANGED namespaces
       ELSE /\ namespaces' = [namespaces EXCEPT ![ns] = updated_properties(@, removals, updates)]
            /\ last' = Resp("update_namespace_properties", 200, "", << ns >>, NoLoc,
                            properties_update_summary(namespaces[ns], removals, updates))
    /\ UNCHANGED << tables, files, pc, frame >>

\* ------------------------------------------------------------ tables
\* catalog.create_table: the namespace must exist, the metadata file is
\* written, the row is inserted; an existing row is TableAlreadyExistsError.
\* _create_table returns the new table's metadata location.
_create_table(c, id) ==
    /\ Free(c)
    /\ IF id[1] \notin DOMAIN namespaces
       THEN /\ last' = Resp("create_table", 500, "NoSuchNamespace", id, NoLoc, FALSE)
            /\ UNCHANGED << tables, files, frame >>
       ELSE IF tables[id] # NoLoc
       THEN /\ last' = Resp("create_table", 409, "TableAlreadyExists", id, NoLoc, FALSE)
            /\ UNCHANGED << tables, files, frame >>
       ELSE /\ Room
            /\ files' = Append(files, new_table_metadata)
            /\ tables' = [tables EXCEPT ![id] = Len(files) + 1]
            /\ frame' = Touch(tables')
            /\ last' = Resp("create_table", 200, "", id, Len(files) + 1, FALSE)
    /\ UNCHANGED << namespaces, pc >>

\* _stage_create_table, first catalog call: catalog.create_table.
_stage_create_table(c, id) ==
    /\ Free(c)
    /\ IF id[1] \notin DOMAIN namespaces
       THEN /\ last' = Resp("create_table", 500, "NoSuchNamespace", id, NoLoc, TRUE)
            /\ UNCHANGED << tables, files, pc, frame >>
       ELSE IF tables[id] # NoLoc
       THEN /\ last' = Resp("create_table", 409, "TableAlreadyExists", id, NoLoc, TRUE)
            /\ UNCHANGED << tables, files, pc, frame >>
       ELSE /\ Room
            /\ files' = Append(files, new_table_metadata)
            /\ tables' = [tables EXCEPT ![id] = Len(files) + 1]
            /\ pc' = [pc EXCEPT ![c] = "stage_drop"]
            /\ frame' = [Touch(tables') EXCEPT ![c] =
                            [NoFrame EXCEPT !.id = id, !.base = Len(files) + 1]]
            /\ UNCHANGED last
    /\ UNCHANGED namespaces

\* _stage_create_table, second catalog call: catalog.drop_table(identifier),
\* then the result built from the table object create_table returned.  A
\* NoSuchTableError of drop_table is not caught by the handler.
stage_drop_location(tbl_location) == tbl_location

_stage_create_table_drop(c) ==
    LET id == frame[c].id IN
    /\ pc[c] = "stage_drop"
    /\ IF tables[id] = NoLoc
       THEN /\ last' = Resp("create_table", 500, "NoSuchTable", id, NoLoc, TRUE)
            /\ frame' = [frame EXCEPT ![c] = NoFrame]
            /\ UNCHANGED tables
       ELSE /\ tables' = [tables EXCEPT ![id] = NoLoc]
            /\ frame' = [Touch(tables') EXCEPT ![c] = NoFrame]
            /\ last' = Resp("create_table", 200, "", id,
                            stage_drop_location(frame[c].base), TRUE)
    /\ pc' = [pc EXCEPT ![c] = "idle"]
    /\ UNCHANGED << namespaces, files >>

create_table(c, path, name, stage_create) ==
    IF stage_create
    THEN _stage_create_table(c, path_identifier(path, name))
    ELSE _create_table(c, path_identifier(path, name))

\* catalog.register_table binds the identifier to an existing metadata file.
register_table(c, path, name, metadata_location) ==
    LET id == path_identifier(path, name) IN
    /\ Free(c)
    /\ IF id[1] \notin DOMAIN namespaces
       THEN /\ last' = Resp("register_table", 404, "NoSuchNamespace", id, NoLoc, << >>)
            /\ UNCHANGED << tables, frame >>
       ELSE IF tables[id] # NoLoc
       THEN /\ last' = Resp("register_table", 409, "TableAlreadyExists", id, NoLoc, << >>)
            /\ UNCHANGED << tables, frame >>
       ELSE /\ tables' = [tables EXCEPT ![id] = metadata_location]
            /\ frame' = Touch(tables')
            /\ last' = Resp("register_table", 200, "", id, metadata_location, << >>)
    /\ UNCHANGED << namespaces, files, pc >>

load_table(c, path, name) ==
    LET id == path_identifier(path, name) IN
    /\ Free(c)
    /\ IF tables[id] = NoLoc
       THEN last' = Resp("load_table", 404, "NoSuchTable", id, NoLoc, << >>)
       ELSE last' = Resp("load_table", 200, "", id, tables[id], << >>)
    /\ UNCHANGED << namespaces, tables, files, pc, frame >>

list_tables(c, path) ==
    LET ns == namespace_to_string(namespace_tuple(path)) IN
    /\ Free(c)
    /\ IF ns \notin DOMAIN namespaces
       THEN last' = Resp("list_tables", 404, "NoSuchNamespace", << ns >>, NoLoc, {})
       ELSE last' = Resp("list_tables", 200, "", << ns >>, NoLoc,
                         { i \in Idents : i[1] = ns /\ tables[i] # NoLoc })
    /\ UNCHANGED << namespaces, tables, files, pc, frame >>

drop_table(c, path, name) ==
    LET id == path_identifier(path, name) IN
    /\ Free(c)
    /\ IF tables[id] = NoLoc
       THEN /\ last' = Resp("drop_table", 404, "NoSuchTable", id, NoLoc, << >>)
            /\ UNCHANGED << tables, frame >>
       ELSE /\ tables' = [tables EXCEPT ![id] = NoLoc]
            /\ frame' = Touch(tables')
            /\ last' = Resp("drop_table", 200, "", id, NoLoc, << >>)
    /\ UNCHANGED << namespaces, files, pc >>

\* ------------------------------------------------------------ commit
\* The identifier of a commit request: absent (None), or a namespace part
\* list and a table name.
NoIdentifier == [present |-> FALSE, namespace |-> << >>, name |-> << >>]

TableIdentifier(nsl, n) == [present |-> TRUE, namespace |-> nsl, name |-> n]

\* The identifiers request bodies carry here: none, or table t of namespace b.
BodyIdentifiers == { NoIdentifier, TableIdentifier(<< << "b" >> >>, << "t" >>) }

\* if commit_table_request.identifier is None: it is set from the path;
\* the catalog keys tuple(identifier.namespace.root + [identifier.name]).
commit_identifier(path, name, body) ==
    IF ~body.present
    THEN << namespace_to_string(namespace_tuple(path)), name >>
    ELSE << namespace_to_string(body.namespace), body.name >>

\* A compare-and-swap that also goes through where the row is gone.
cas_or_dropped(current, loaded) == current = loaded \/ current = NoLoc

\* A compare-and-swap that compares nothing.
cas_ignored(current, loaded) == TRUE

\* The compare-and-swap of catalog._commit_table: the row is updated only
\* where its metadata location is still the one that was loaded.
cas_matches(current, loaded) == current = loaded

\* catalog._commit_table up to the in-memory candidate, with the handler's
\* responses: it loads the table (NoSuchTableError when it has no row),
\* validates every requirement against the loaded metadata
\* (CommitFailedException) and applies the updates to it (a ValueError of
\* an update is caught by no except clause: 500); updates that change
\* nothing return the loaded table without a write.
_commit_table(c, id, reqs, upds) ==
    /\ Free(c)
    /\ IF tables[id] = NoLoc
       THEN /\ last' = Resp("update_table", 404, "NoSuchTable", id, NoLoc, "validate")
            /\ UNCHANGED << pc, frame >>
       ELSE IF ~validate(reqs, files[tables[id]])
       THEN /\ last' = Resp("update_table", 409, "CommitFailed", id, NoLoc, "validate")
            /\ UNCHANGED << pc, frame >>
       ELSE IF ~updates_apply(files[tables[id]], upds)
       THEN /\ last' = Resp("update_table", 500, "ValueError", id, NoLoc, "validate")
            /\ UNCHANGED << pc, frame >>
       ELSE IF update_table_metadata(files[tables[id]], upds) = files[tables[id]]
       THEN /\ last' = Resp("update_table", 200, "", id, tables[id], "validate")
            /\ UNCHANGED << pc, frame >>
       ELSE /\ Room
            /\ pc' = [pc EXCEPT ![c] = "publish"]
            /\ frame' = [frame EXCEPT ![c] =
                            [id |-> id, base |-> tables[id], upds |-> upds,
                             touched |-> FALSE, renamed |-> FALSE]]
            /\ UNCHANGED last
    /\ UNCHANGED << namespaces, tables, files >>

\* Where requests name their table: in the path, or in the body under the
\* path of another table.
CommitTargets ==
    { << p, NoIdentifier >> : p \in Paths } \cup
    { << << "a" >>, b >> : b \in BodyIdentifiers \ { NoIdentifier } }

\* The requirements and updates requests carry: every requirement list with
\* every update list that can be applied, and the lists that cannot without
\* a requirement.
CommitRequests ==
    (ReqLists \X UpdLists) \cup ({ << >> } \X InvalidUpdLists)

\* A body that validates everything it is given.
request_parses_anything(upds) == TRUE

\* The request body is validated as a CommitTableRequest before the handler
\* runs: every update must be of a known kind.
request_parses(upds) == \A k \in 1..Len(upds) : upds[k].action \in KnownActions

\* update_table: a body that does not validate is answered 422 without a
\* catalog call; otherwise the request's identifier is resolved and the
\* commit starts.
update_table(c, path, name, body, reqs, upds) ==
    IF ~request_parses(upds)
    THEN /\ Free(c)
         /\ last' = Resp("update_table", 422, "ValidationError", << >>, NoLoc, "body")
         /\ UNCHANGED << namespaces, tables, files, pc, frame >>
    ELSE _commit_table(c, commit_identifier(path, name, body), reqs, upds)

\* A publish that, finding the location changed, loads the table again and
\* tries once more instead of answering.
update_table_publish_retrying(c) ==
    LET id == frame[c].id IN
    /\ pc[c] = "publish"
    /\ IF cas_matches(tables[id], frame[c].base)
       THEN /\ Room
            /\ files' = Append(files, update_table_metadata(files[frame[c].base], frame[c].upds))
            /\ tables' = [tables EXCEPT ![id] = Len(files) + 1]
            /\ frame' = [Touch(tables') EXCEPT ![c] = NoFrame]
            /\ last' = Resp("update_table", 200, "", id, Len(files) + 1, "publish")
            /\ pc' = [pc EXCEPT ![c] = "idle"]
       ELSE IF tables[id] # NoLoc
       THEN /\ frame' = [frame EXCEPT ![c].base = tables[id]]
            /\ UNCHANGED << tables, files, last, pc >>
       ELSE /\ last' = Resp("update_table", 409, "CommitFailed", id, NoLoc, "publish")
            /\ frame' = [frame EXCEPT ![c] = NoFrame]
            /\ pc' = [pc EXCEPT ![c] = "idle"]
            /\ UNCHANGED << tables, files >>
    /\ UNCHANGED namespaces

\* A publish whose conflict is answered as not found.
update_table_publish_conflict_as_not_found(c) ==
    LET id == frame[c].id IN
    /\ pc[c] = "publish"
    /\ IF cas_matches(tables[id], frame[c].base)
       THEN /\ Room
            /\ files' = Append(files, update_table_metadata(files[frame[c].base], frame[c].upds))
            /\ tables' = [tables EXCEPT ![id] = Len(files) + 1]
            /\ frame' = [Touch(tables') EXCEPT ![c] = NoFrame]
            /\ last' = Resp("update_table", 200, "", id, Len(files) + 1, "publish")
       ELSE /\ last' = Resp("update_table", 404, "CommitFailed", id, NoLoc, "publish")
            /\ frame' = [frame EXCEPT ![c] = NoFrame]
            /\ UNCHANGED << tables, files >>
    /\ pc' = [pc EXCEPT ![c] = "idle"]
    /\ UNCHANGED namespaces

\* update_table, the publish of catalog._commit_table: the candidate is
\* written to a new location and the row is compare-and-swapped to it; a
\* row that no longer holds the loaded location is CommitFailedException.
update_table_publish(c) ==
    LET id == frame[c].id IN
    /\ pc[c] = "publish"
    /\ IF cas_matches(tables[id], frame[c].base)
       THEN /\ Room
            /\ files' = Append(files, update_table_metadata(files[frame[c].base], frame[c].upds))
            /\ tables' = [tables EXCEPT ![id] = Len(files) + 1]
            /\ frame' = [Touch(tables') EXCEPT ![c] = NoFrame]
            /\ last' = Resp("update_table", 200, "", id, Len(files) + 1, "publish")
       ELSE /\ last' = Resp("update_table", 409, "CommitFailed", id, NoLoc, "publish")
            /\ frame' = [frame EXCEPT ![c] = NoFrame]
            /\ UNCHANGED << tables, files >>
    /\ pc' = [pc EXCEPT ![c] = "idle"]
    /\ UNCHANGED namespaces

\* ------------------------------------------------------------ transaction
\* A per-table commit request of a transaction.
CommitTableRequest(id, reqs, upds) ==
    [identifier |-> id, requirements |-> reqs, updates |-> upds]

\* The requests a transaction carries here: on any table, requiring no
\* current snapshot or snapshot 1, and setting snapshot 1.
TxRequests ==
    { CommitTableRequest(i, << AssertRefSnapshotId(s) >>, << SetSnapshotRef(1) >>) :
        i \in Idents, s \in 0..1 }

\* Request lists of a transaction: one request, or two on different tables.
TxLists ==
    { << r >> : r \in TxRequests } \cup
    { rs \in { << r1, r2 >> : r1, r2 \in TxRequests } : rs[1].identifier # rs[2].identifier }

\* A transaction that commits its requests one after the other and stops at
\* the first that fails, keeping what it has published.
RECURSIVE commit_transaction_one_by_one(_, _, _)
commit_transaction_one_by_one(rows, fs, requests) ==
    IF requests = << >> THEN [rows |-> rows, files |-> fs]
    ELSE LET r == Head(requests)
             id == r.identifier
         IN  IF \/ rows[id] = NoLoc
                \/ ~validate(r.requirements, fs[rows[id]])
                \/ Len(fs) >= MaxLoc
             THEN [rows |-> rows, files |-> fs]
             ELSE commit_transaction_one_by_one(
                      [rows EXCEPT ![id] = Len(fs) + 1],
                      Append(fs, update_table_metadata(fs[rows[id]], r.updates)),
                      Tail(requests))

\* The body of commit_transaction is `...`: the rows and the metadata files
\* it leaves behind are those it found.
commit_transaction_effect(rows, fs, requests) == [rows |-> rows, files |-> fs]

\* commit_transaction returns None (200) whatever the request holds.
commit_transaction(c, requests) ==
    /\ Free(c)
    /\ tables' = commit_transaction_effect(tables, files, requests).rows
    /\ files' = commit_transaction_effect(tables, files, requests).files
    /\ frame' = Touch(tables')
    /\ last' = Resp("commit_transaction", 200, "", << >>, NoLoc, << >>)
    /\ UNCHANGED << namespaces, pc >>

\* ------------------------------------------------------------ rename
\* source = (".".join(request.source.namespace.root), request.source.name)
rename_identifier(nsl, name) == << Join(nsl, "."), name >>

\* A rename that binds the destination and keeps the source row.
rename_rows_copy(rows, source, destination) ==
    [i \in Idents |-> IF i = destination THEN rows[source] ELSE rows[i]]

\* The UPDATE of catalog.rename_table: the source row is re-keyed.
rename_rows(rows, source, destination) ==
    [i \in Idents |->
        IF i = destination THEN rows[source]
        ELSE IF i = source THEN NoLoc
        ELSE rows[i]]

\* catalog.rename_table: the destination namespace must exist
\* (NoSuchNamespaceError); the UPDATE matches no row when the source is
\* absent (NoSuchTableError) and breaks the key's uniqueness when another
\* row holds the destination (TableAlreadyExistsError).
rename_table(c, snl, sname, dnl, dname) ==
    LET source == rename_identifier(snl, sname)
        destination == rename_identifier(dnl, dname) IN
    /\ Free(c)
    /\ IF destination[1] \notin DOMAIN namespaces
       THEN /\ last' = Resp("rename_table", 404, "NoSuchNamespace", source, NoLoc, destination)
            /\ UNCHANGED << tables, frame >>
       ELSE IF tables[source] = NoLoc
       THEN /\ last' = Resp("rename_table", 404, "NoSuchTable", source, NoLoc, destination)
            /\ UNCHANGED << tables, frame >>
       ELSE IF destination # source /\ tables[destination] # NoLoc
       THEN /\ last' = Resp("rename_table", 409, "TableAlreadyExists", source, NoLoc, destination)
            /\ UNCHANGED << tables, frame >>
       ELSE /\ tables' = rename_rows(tables, source, destination)
            /\ frame' = TouchRenamed(tables', source)
            /\ last' = Resp("rename_table", 200, "", source, NoLoc, destination)
    /\ UNCHANGED << namespaces, files, pc >>

\* ------------------------------------------------------------ reset
\* catalog.destroy_tables(); catalog.create_tables(): every row is gone,
\* the metadata files stay.
reset(c) ==
    /\ Free(c)
    /\ namespaces' = NoNamespaces
    /\ tables' = [i \in Idents |-> NoLoc]
    /\ frame' = Touch(tables')
    /\ last' = Resp("reset", 200, "", << >>, NoLoc, << >>)
    /\ UNCHANGED << files, pc >>

Next ==
    \E c \in Clients :
        \/ \E nsl \in NsLists : create_namespace(c, nsl, NoProperties)
        \/ \E p \in Paths : drop_namespace(c, p)
        \/ \E p \in Paths, n \in Names, st \in BOOLEAN : create_table(c, p, n, st)
        \/ _stage_create_table_drop(c)
        \/ \E p \in Paths, n \in Names, l \in 1..Len(files) : register_table(c, p, n, l)
        \/ \E p \in Paths, n \in Names : load_table(c, p, n)
        \/ \E p \in Paths : list_tables(c, p)
        \/ \E p \in Paths, n \in Names : drop_table(c, p, n)
        \/ \E t \in CommitTargets, n \in Names, rq \in CommitRequests :
              update_table(c, t[1], n, t[2], rq[1], rq[2])
        \/ update_table_publish(c)
        \/ \E rs \in TxLists : commit_transaction(c, rs)
        \/ \E snl \in NsLists, sn \in Names, dnl \in NsLists, dn \in Names :
              rename_table(c, snl, sn, dnl, dn)
        \/ reset(c)

Spec == Init /\ [][Next]_vars

\* ------------------------------------------------------------ namespace store
\* The namespace operations on their own, with properties, a child
\* namespace and one table.
Keys == { "k", "l" }

PropMaps == { NoProperties, [k \in { "k" } |-> "v"], [k \in Keys |-> "v"] }

Updates == { NoProperties, [k \in { "k" } |-> "v"], [k \in { "k" } |-> "w"],
             [k \in { "l" } |-> "w"] }

NsCreates ==
    { << << << "a" >> >>, pm >> : pm \in PropMaps }
        \cup { << << << "a" >>, << "b" >> >>, NoProperties >>,
               << << << "b" >> >>, NoProperties >> }

NsPaths == { << "a" >>, << "b" >>, << "a", NAMESPACE_SEPARATOR, "b" >> }

Parents == { NoParent, Parent(<< >>) } \cup { Parent(p) : p \in NsPaths }

NsNext ==
    \E c \in Clients :
        \/ \E cr \in NsCreates : create_namespace(c, cr[1], cr[2])
        \/ \E p \in NsPaths : drop_namespace(c, p)
        \/ \E parent \in Parents : list_namespaces(c, parent)
        \/ \E p \in NsPaths : load_namespace_metadata(c, p)
        \/ \E rm \in SUBSET Keys, up \in Updates :
              update_namespace_properties(c, << "a" >>, rm, up)
        \/ \E n \in Names : create_table(c, << "a" >>, n, FALSE)
        \/ \E n \in Names : drop_table(c, << "a" >>, n)

NsSpec == Init /\ [][NsNext]_vars

\* ------------------------------------------------------------ path parsing
\* The handlers that take a namespace path, on the paths a client forms by
\* joining a part list with the separator.  The part list a client works
\* with is drawn at the start and held in its frame; parts may be empty and
\* may contain dots.
Chars == { "a", "." }

RawParts == UNION { [1..k -> Chars] : k \in 0..MaxPartLen }

RawPartLists == UNION { [1..k -> RawParts] : k \in 1..MaxParts }

\* format(parts): the path of a part list.
format(parts) == Join(parts, NAMESPACE_SEPARATOR)

PathInit ==
    /\ namespaces = NoNamespaces
    /\ tables = [i \in Idents |-> NoLoc]
    /\ files = << >>
    /\ pc = [c \in Clients |-> "idle"]
    /\ \E parts \in RawPartLists : frame = [c \in Clients |-> [NoFrame EXCEPT !.id = parts]]
    /\ last = NoResp

PathNext ==
    \E c \in Clients :
        \/ create_namespace(c, frame[c].id, NoProperties)
        \/ load_namespace_metadata(c, format(frame[c].id))
        \/ list_tables(c, format(frame[c].id))
        \/ drop_namespace(c, format(frame[c].id))

PathSpec == PathInit /\ [][PathNext]_vars

\* ------------------------------------------------------------ rename requests
\* Renames on their own, with the namespaces and tables they move, and with
\* requests that name the namespace [a,b] of two parts and the namespace
\* [a.b] of one part with a dot.  Neither is ever created here, so the
\* catalog answers those by the identifier it was handed.
DottedNsLists == { << << "a" >>, << "b" >> >>, << << "a", ".", "b" >> >> }

RenameTargets == (NsLists \X NsLists) \cup { << l, l >> : l \in DottedNsLists }

RenameNext ==
    \E c \in Clients :
        \/ \E nsl \in NsLists : create_namespace(c, nsl, NoProperties)
        \/ \E p \in Paths, n \in Names : create_table(c, p, n, FALSE)
        \/ \E p \in Paths, n \in Names : load_table(c, p, n)
        \/ \E p \in Paths, n \in Names : drop_table(c, p, n)
        \/ \E r \in RenameTargets, sn \in Names, dn \in Names :
              rename_table(c, r[1], sn, r[2], dn)

RenameSpec == Init /\ [][RenameNext]_vars

\* ------------------------------------------------------------ properties
\* Steps that can be a commit_transaction, the first part of an update_table
\* or its publish: what each of them leaves in `last` and `pc`.
TransactionStep == last'.op = "commit_transaction"

UpdateTableStep ==
    \/ last' # last /\ last'.op = "update_table" /\ last'.arg = "validate"
    \/ \E c \in Clients : pc[c] = "idle" /\ pc'[c] = "publish"

PublishStep == \E c \in Clients : pc[c] = "publish" /\ pc'[c] = "idle"

\* The request r of a transaction is valid in the current state: its table
\* has a binding and every requirement holds against the bound metadata.
TxRequestValid(r) ==
    /\ tables[r.identifier] # NoLoc
    /\ validate(r.requirements, files[tables[r.identifier]])

\* After the step, the table of request r is bound to a newly written
\* location that holds r's candidate metadata.
TxRequestAdvanced(r) ==
    /\ tables[r.identifier] # NoLoc
    /\ tables'[r.identifier] \in (Len(files) + 1)..Len(files')
    /\ files'[tables'[r.identifier]] =
           update_table_metadata(files[tables[r.identifier]], r.updates)

\* C1: CommitTransaction is all-or-nothing: a CommitTransaction step either
\* advances every listed table to its candidate metadata or leaves the
\* binding of every listed table as it was.
C1_TransactionAllOrNothing ==
    [][TransactionStep => \A c \in Clients, rs \in TxLists :
          commit_transaction(c, rs) =>
              \/ \A k \in 1..Len(rs) : tables'[rs[k].identifier] = tables[rs[k].identifier]
              \/ \A k \in 1..Len(rs) : TxRequestAdvanced(rs[k])]_vars

\* C1 witness: a CommitTransaction has returned while two tables are bound,
\* one without a snapshot (the request requiring none is valid) and one
\* unable to meet the same list's requirement on it.
C1_Witness ==
    /\ last.op = "commit_transaction"
    /\ \E i, j \in Idents :
          /\ i # j
          /\ tables[i] # NoLoc
          /\ tables[j] # NoLoc
          /\ files[tables[i]].snap = 0

\* C2: a CommitTransaction all of whose requests are valid returns ok and
\* leaves every listed table bound to a new location holding its candidate.
C2_TransactionPublishesAll ==
    [][TransactionStep => \A c \in Clients, rs \in TxLists :
          (commit_transaction(c, rs) /\ \A k \in 1..Len(rs) : TxRequestValid(rs[k])) =>
              /\ last'.code = 200
              /\ \A k \in 1..Len(rs) : TxRequestAdvanced(rs[k])]_vars

\* C3: a requirement failure is never swallowed: a CommitTransaction holding
\* a request whose requirement fails, and a CommitTable whose requirement
\* fails or whose table's location changed before the publish, end in
\* CommitFailed and never in ok.
C3_FailureNeverSwallowed ==
    [][/\ TransactionStep => \A c \in Clients, rs \in TxLists :
             (/\ commit_transaction(c, rs)
              /\ \E k \in 1..Len(rs) :
                    /\ tables[rs[k].identifier] # NoLoc
                    /\ ~validate(rs[k].requirements, files[tables[rs[k].identifier]]))
             => last'.error = "CommitFailed"
       /\ UpdateTableStep =>
          \A c \in Clients, id \in Idents, r \in ReqLists, u \in UpdLists :
             (/\ tables[id] # NoLoc
              /\ ~validate(r, files[tables[id]])
              /\ _commit_table(c, id, r, u))
             => last'.error = "CommitFailed"
       /\ \A c \in Clients :
             (update_table_publish(c) /\ tables[frame[c].id] # frame[c].base)
             => last'.error = "CommitFailed"]_vars

\* The identifier of the update_table step that worker c takes: the one its
\* response answers for, or the one it carries on to the publish with.
StepIdentifier(c) == IF pc'[c] = "publish" THEN frame'[c].id ELSE last'.id

\* Requirement list r is stale on identifier id: it asserts a current
\* snapshot id other than the one the bound metadata holds.
Stale(r, id) ==
    \E k \in 1..Len(r) :
        /\ r[k].type = "assert-ref-snapshot-id"
        /\ r[k].snap # files[tables[id]].snap

\* C4: stale commits are rejected: a CommitTable whose requirement "current
\* snapshot id == X" names a snapshot id other than the one the table's
\* current metadata holds fails with CommitFailed and leaves every binding
\* as it is, whatever its updates.
C4_StaleCommitRejected ==
    [][UpdateTableStep =>
       \A c \in Clients :
          (Free(c) /\ StepIdentifier(c) \in Idents /\ tables[StepIdentifier(c)] # NoLoc) =>
             \A r \in ReqLists :
                Stale(r, StepIdentifier(c)) =>
                   \A u \in UpdLists :
                      _commit_table(c, StepIdentifier(c), r, u) =>
                         /\ last'.code = 409
                         /\ last'.error = "CommitFailed"
                         /\ pc'[c] = "idle"
                         /\ tables' = tables
                         /\ files' = files]_vars

\* C4 witness: a CommitTable was refused at validation on a table whose
\* binding another commit has advanced to a metadata with a new snapshot id.
C4_Witness ==
    /\ last.op = "update_table"
    /\ last.error = "CommitFailed"
    /\ last.arg = "validate"
    /\ tables[last.id] > 1
    /\ files[tables[last.id]].snap # files[1].snap

\* C5 (as stated): a commit publishes only if no other operation has written
\* the table's binding between the request's validation and its publish.
C5_NoWriteBetweenValidateAndApply ==
    [][PublishStep => \A c \in Clients :
          (update_table_publish(c) /\ tables' # tables) => ~frame[c].touched]_vars

\* C5 (amended): the binding of a table changes through a commit only in the
\* publish step, the last step of a request all of whose requirements held
\* against the metadata that was the base of its updates, and only while the
\* table is still bound to the location that request loaded; the new binding
\* is a new location holding the updates applied to that base, and no other
\* binding changes.
C5_PublishOnlyOnValidatedBase ==
    [][/\ UpdateTableStep => tables' = tables
       /\ \A c \in Clients :
             (pc[c] = "idle" /\ pc'[c] = "publish") =>
                /\ frame'[c].base = tables[frame'[c].id]
                /\ \A r \in ReqLists :
                      _commit_table(c, frame'[c].id, r, frame'[c].upds) =>
                         validate(r, files[frame'[c].base])
       /\ PublishStep => \A c \in Clients :
             (update_table_publish(c) /\ tables' # tables) =>
                /\ tables[frame[c].id] = frame[c].base
                /\ tables'[frame[c].id] = Len(files) + 1
                /\ files' = Append(files,
                       update_table_metadata(files[frame[c].base], frame[c].upds))
                /\ \A i \in Idents \ { frame[c].id } : tables'[i] = tables[i]
       /\ (~UpdateTableStep /\ ~PublishStep) =>
             \A c \in Clients : pc[c] = "publish" => frame'[c].base = frame[c].base]_vars

\* C5 witness: a commit has published: the table is bound to the location
\* the response returned, which holds a snapshot the base did not.
C5_Witness ==
    /\ last.op = "update_table"
    /\ last.code = 200
    /\ last.arg = "publish"
    /\ tables[last.id] = last.loc
    /\ files[last.loc].snap # 0

C7_StagedCreateInvisible ==
    \A c \in Clients :
        pc[c] = "stage_drop" => tables[frame[c].id] # frame[c].base

\* C8: the metadata location of a response is null exactly when the table is
\* staged: a successful CreateTable(stageCreate=true) returns no location,
\* and a successful CreateTable(stageCreate=false), RegisterTable or
\* LoadTable returns a location.
C8_NullLocationIffStaged ==
    /\ (last.op = "create_table" /\ last.code = 200 /\ last.arg = TRUE)
          => last.loc = NoLoc
    /\ (last.op = "create_table" /\ last.code = 200 /\ last.arg = FALSE)
          => last.loc # NoLoc
    /\ (last.op \in { "register_table", "load_table" } /\ last.code = 200)
          => last.loc # NoLoc

HasAssertCreate(reqs) == \E k \in 1..Len(reqs) : reqs[k].type = "assert-create"

\* C9: a CommitTable on an identifier without a binding fails with
\* NoSuchTable and creates no binding unless it carries "assert table does
\* not exist", in which case it does not fail with NoSuchTable; a request
\* carrying that requirement fails with CommitFailed when the table exists.
C9_CommitOnAbsentTable ==
    [][UpdateTableStep =>
       \A c \in Clients, id \in Idents, r \in ReqLists, u \in UpdLists :
          _commit_table(c, id, r, u) =>
             /\ (tables[id] = NoLoc /\ ~HasAssertCreate(r)) =>
                   (last'.error = "NoSuchTable" /\ tables' = tables)
             /\ (tables[id] = NoLoc /\ HasAssertCreate(r)) =>
                   last'.error # "NoSuchTable"
             /\ (tables[id] # NoLoc /\ HasAssertCreate(r)) =>
                   (last'.error = "CommitFailed" /\ tables' = tables)]_vars

RenameStep == last'.op = "rename_table"

\* What the rename of source to destination must answer and leave behind,
\* for a destination other than the source.
RenameOutcome(source, destination) ==
    /\ destination[1] \notin DOMAIN namespaces => last'.error = "NoSuchNamespace"
    /\ (destination[1] \in DOMAIN namespaces /\ tables[source] = NoLoc)
          => last'.error = "NoSuchTable"
    /\ (destination[1] \in DOMAIN namespaces /\ tables[source] # NoLoc
            /\ tables[destination] # NoLoc)
          => last'.error = "TableAlreadyExists"
    /\ last'.code # 200 => tables' = tables
    /\ last'.code = 200 =>
          /\ tables[source] # NoLoc
          /\ tables'[destination] = tables[source]
          /\ tables'[source] = NoLoc
          /\ \A i \in Idents \ { source, destination } : tables'[i] = tables[i]
    /\ files' = files

\* C10 (as stated): RenameTable(source, destination) moves only the binding:
\* on success the destination holds the location the source held and the
\* source has no binding; it fails with NoSuchNamespace, NoSuchTable or
\* TableAlreadyExists when the destination namespace is absent, the source
\* is absent or the destination is occupied, and a failure changes nothing.
C10_RenameMovesBinding ==
    [][RenameStep =>
       \A c \in Clients, snl \in NsLists, sn \in Names, dnl \in NsLists, dn \in Names :
          rename_table(c, snl, sn, dnl, dn) =>
             RenameOutcome(rename_identifier(snl, sn), rename_identifier(dnl, dn))]_vars

\* C10 (amended): the same for a destination other than the source; a rename
\* of a bound table onto its own identifier succeeds and changes nothing.
C10_RenameMovesBindingToOther ==
    [][RenameStep =>
       \A c \in Clients, snl \in NsLists, sn \in Names, dnl \in NsLists, dn \in Names :
          rename_table(c, snl, sn, dnl, dn) =>
             IF rename_identifier(snl, sn) # rename_identifier(dnl, dn)
             THEN RenameOutcome(rename_identifier(snl, sn), rename_identifier(dnl, dn))
             ELSE /\ tables' = tables
                  /\ files' = files
                  /\ (rename_identifier(dnl, dn)[1] \in DOMAIN namespaces
                         /\ tables[rename_identifier(snl, sn)] # NoLoc)
                        => last'.code = 200]_vars

\* C10 witness: a rename has succeeded: the destination, another identifier
\* than the source, is bound and the source is not.
C10_Witness ==
    /\ last.op = "rename_table"
    /\ last.code = 200
    /\ last.id # last.arg
    /\ tables[last.arg] # NoLoc
    /\ tables[last.id] = NoLoc

\* C11 (as stated): a RenameTable and a CommitTable racing on the same source
\* table never both win: a commit during whose flight a rename of its table
\* succeeded does not report success.
C11_RenameAndCommitNeverBothWin ==
    [][PublishStep => \A c \in Clients :
          (update_table_publish(c) /\ frame[c].renamed) =>
             /\ last'.error = "CommitFailed"
             /\ tables' = tables]_vars

\* C11 (amended): a successful rename to another identifier leaves the source
\* unbound and the destination bound to the location the source held, so
\* that every commit in flight on the source finds its location changed; a
\* commit during whose flight its table was renamed away reports success
\* only if the source identifier is bound to the location it loaded when it
\* publishes, and it then binds its new metadata to the source identifier
\* and changes no other binding; otherwise it ends in CommitFailed and
\* changes no binding.
C11_RenameOrCommitOnLoadedLocation ==
    [][/\ RenameStep =>
          \A c \in Clients, snl \in NsLists, sn \in Names, dnl \in NsLists, dn \in Names :
             (/\ rename_identifier(snl, sn) # rename_identifier(dnl, dn)
              /\ rename_table(c, snl, sn, dnl, dn)
              /\ last'.code = 200) =>
                /\ tables'[rename_identifier(snl, sn)] = NoLoc
                /\ tables'[rename_identifier(dnl, dn)] = tables[rename_identifier(snl, sn)]
                /\ \A d \in Clients :
                      (pc[d] = "publish" /\ frame[d].id = rename_identifier(snl, sn)) =>
                         /\ pc'[d] = "publish"
                         /\ frame'[d].renamed
                         /\ tables'[frame'[d].id] # frame'[d].base
       /\ PublishStep => \A c \in Clients :
             (update_table_publish(c) /\ frame[c].renamed) =>
                IF tables[frame[c].id] = frame[c].base
                THEN /\ last'.code = 200
                     /\ tables'[frame[c].id] = Len(files) + 1
                     /\ files'[Len(files) + 1] =
                           update_table_metadata(files[frame[c].base], frame[c].upds)
                     /\ \A i \in Idents \ { frame[c].id } : tables'[i] = tables[i]
                ELSE /\ last'.error = "CommitFailed"
                     /\ tables' = tables
                     /\ files' = files]_vars

\* C11 witness: a rename of a table has succeeded while a commit that loaded
\* it is in flight; the source is unbound and the destination holds the
\* location the commit loaded.
C11_Witness ==
    /\ last.op = "rename_table"
    /\ last.code = 200
    /\ \E c \in Clients :
          /\ pc[c] = "publish"
          /\ frame[c].renamed
          /\ frame[c].id = last.id
          /\ tables[last.id] = NoLoc
          /\ tables[last.arg] = frame[c].base

\* Steps that can be an update_table: it answers, or it carries on to the
\* publish.
CommitRequestStep ==
    \/ last'.op = "update_table"
    \/ \E c \in Clients : pc[c] = "idle" /\ pc'[c] = "publish"

\* C12: a failed commit publishes nothing: a CommitTable request one of whose
\* updates is of an unknown kind, or names a schema id that the metadata
\* produced by the updates before it does not hold, fails, does not go on
\* to a publish, and leaves every binding and every metadata file as it
\* was, whatever valid updates come before the invalid one.
C12_FailedCommitPublishesNothing ==
    [][CommitRequestStep =>
       \A c \in Clients :
          Free(c) =>
             \/ /\ last'.op = "update_table"
                /\ last'.code # 200
                /\ pc'[c] = "idle"
                /\ tables' = tables
                /\ files' = files
             \/ \A p \in Paths, n \in Names, b \in BodyIdentifiers, u \in InvalidUpdLists :
                   \A r \in ReqLists : ~update_table(c, p, n, b, r, u)]_vars

\* C12 witness: a commit whose requirements held was refused for an update
\* that could not be applied; the table is bound as before.
C12_Witness ==
    /\ last.op = "update_table"
    /\ last.code = 500
    /\ last.error = "ValueError"
    /\ tables[last.id] # NoLoc
    /\ \A c \in Clients : pc[c] = "idle"

\* What a commit in flight does in its publish step: it answers at once,
\* with success where the table is bound to the location it loaded and with
\* CommitFailed and no change otherwise, and nothing of the request is kept.
OnePublishAttempt ==
    \A c \in Clients :
       (/\ pc[c] = "publish"
        /\ pc'[c] = "idle" \/ frame'[c] # frame[c]
        /\ update_table_publish(c)) =>
          /\ pc'[c] = "idle"
          /\ frame'[c] = NoFrame
          /\ last'.op = "update_table"
          /\ IF tables[frame[c].id] = frame[c].base
             THEN last'.code = 200
             ELSE /\ last'.error = "CommitFailed"
                  /\ tables' = tables
                  /\ files' = files

\* Metadata is written only by the step of a request that is being served:
\* a create_table, or the publish step of a commit in flight.
WritesOnlyWhileServed ==
    files' # files =>
       \/ last'.op = "create_table"
       \/ \E c \in Clients : pc[c] = "idle" /\ pc'[c] = "stage_drop"
       \/ \E c \in Clients : pc[c] = "publish" /\ pc'[c] = "idle"

\* This step answers an update_table: the response is one of update_table
\* and no worker starts on a request that answers later.
CommitAnswerStep ==
    /\ last'.op = "update_table"
    /\ \A c \in Clients : pc[c] = "idle" => pc'[c] = "idle"

NsPartLists == { cr[1] : cr \in NsCreates }

\* A table is bound under the namespace string ns.
HoldsTable(ns) == \E i \in Idents : i[1] = ns /\ tables[i] # NoLoc

\* A stored namespace has `parts` as a proper prefix of its parts.
HoldsNamespace(parts) ==
    \E q \in NsPartLists :
        /\ Len(q) > Len(parts)
        /\ SubSeq(q, 1, Len(parts)) = parts
        /\ namespace_to_string(q) \in DOMAIN namespaces

ChildrenOf(parts) ==
    { r \in NsPartLists :
        /\ namespace_to_string(r) \in DOMAIN namespaces
        /\ Len(r) = Len(parts) + 1
        /\ SubSeq(r, 1, Len(parts)) = parts }

\* The answer list_namespaces owes for the parent part list `parts`.
ListOutcome(parts) ==
    IF parts # << >> /\ namespace_to_string(parts) \notin DOMAIN namespaces
    THEN last'.code = 404 /\ last'.error = "NoSuchNamespace"
    ELSE last'.code = 200 /\ last'.arg.namespaces = ChildrenOf(parts)

JustCreated(ns) ==
    /\ last.op = "create_namespace"
    /\ last.code = 200
    /\ last.id = << ns >>

\* What create_namespace owes: a stored namespace is refused and kept as it
\* is, any other one is stored, whether or not its parent is.
CreateOutcome(nsl) ==
    LET ns == namespace_to_string(nsl) IN
    IF ns \in DOMAIN namespaces
    THEN /\ last'.code = 409 /\ last'.error = "NamespaceAlreadyExists"
         /\ namespaces' = namespaces
    ELSE /\ last'.code = 200
         /\ ns \in DOMAIN namespaces'
         /\ \A n \in DOMAIN namespaces : n \in DOMAIN namespaces' /\ namespaces'[n] = namespaces[n]

\* C15 as stated: a load_namespace_metadata that follows the successful
\* create_namespace of the same namespace returns exactly the properties
\* the create supplied; a create of a stored namespace is refused and
\* changes nothing; a create of any other namespace succeeds.
C15_LoadReturnsSupplied ==
    [][/\ last'.op = "create_namespace" =>
             \A c \in Clients, cr \in NsCreates :
                create_namespace(c, cr[1], cr[2]) => CreateOutcome(cr[1])
       /\ last'.op = "load_namespace_metadata" =>
             \A c \in Clients, p \in NsPaths :
                (load_namespace_metadata(c, p) /\ JustCreated(namespace_to_string(namespace_tuple(p)))) =>
                   /\ last'.code = 200
                   /\ last'.arg.properties = last.arg.properties]_vars

\* C15, amended: as above, but the load returns the supplied properties
\* when there are some, and the single property exists = true when the
\* create supplied none.
C15_LoadReturnsSuppliedOrMinimal ==
    [][/\ last'.op = "create_namespace" =>
             \A c \in Clients, cr \in NsCreates :
                create_namespace(c, cr[1], cr[2]) => CreateOutcome(cr[1])
       /\ last'.op = "load_namespace_metadata" =>
             \A c \in Clients, p \in NsPaths :
                (load_namespace_metadata(c, p) /\ JustCreated(namespace_to_string(namespace_tuple(p)))) =>
                   /\ last'.code = 200
                   /\ last.arg.properties # NoProperties =>
                         last'.arg.properties = last.arg.properties
                   /\ last.arg.properties = NoProperties =>
                         /\ DOMAIN last'.arg.properties = { "exists" }
                         /\ last'.arg.properties["exists"] = "true"]_vars

\* Namespace a, created with two properties, was just loaded with them.
C15_Witness ==
    /\ last.op = "load_namespace_metadata"
    /\ last.code = 200
    /\ last.arg.namespace = << << "a" >> >>
    /\ DOMAIN last.arg.properties = Keys

\* The three sets of a summary share no key.
PairwiseDisjoint(summary) ==
    /\ summary.updated \cap summary.removed = {}
    /\ summary.updated \cap summary.missing = {}
    /\ summary.removed \cap summary.missing = {}

\* What update_namespace_properties owes on the namespace string ns: the
\* summary read off the properties before and after the step, the values
\* asked for in place, the removed keys gone and every other key as it was.
UpdateOutcome(ns, removals, updates) ==
    IF ns \notin DOMAIN namespaces
    THEN /\ last'.code = 404 /\ last'.error = "NoSuchNamespace"
         /\ namespaces' = namespaces
    ELSE LET old == namespaces[ns]
             new == namespaces'[ns]
             summary == last'.arg
         IN  /\ last'.code = 200
             /\ DOMAIN namespaces' = DOMAIN namespaces
             /\ \A n \in DOMAIN namespaces \ { ns } : namespaces'[n] = namespaces[n]
             /\ summary.updated =
                   { k \in DOMAIN updates :
                       k \notin DOMAIN old \/ old[k] # new[k] }
             /\ summary.removed =
                   { k \in removals : k \in DOMAIN old /\ k \notin DOMAIN new }
             /\ summary.missing = { k \in removals : k \notin DOMAIN old }
             /\ PairwiseDisjoint(summary)
             /\ \A k \in DOMAIN updates : k \in DOMAIN new /\ new[k] = updates[k]
             /\ \A k \in removals : k \notin DOMAIN new
             /\ \A k \in (DOMAIN old \cup DOMAIN new) \ (removals \cup DOMAIN updates) :
                   k \in DOMAIN old /\ k \in DOMAIN new /\ new[k] = old[k]

C20_EmptyParentListsFromRoot ==
    [][last'.op = "list_namespaces" =>
       \A c \in Clients :
          list_namespaces(c, Parent(<< >>)) =>
             /\ last'.code = 200
             /\ last'.arg.parent = << >>
             /\ last'.arg.namespaces = ChildrenOf(<< >>)]_vars

\* ------------------------------------------------------------ path properties
\* A valid part list: at least one part, no part empty, no separator in a
\* part.
ValidParts(parts) ==
    /\ parts # << >>
    /\ \A i \in 1..Len(parts) :
          /\ parts[i] # << >>
          /\ \A j \in 1..Len(parts[i]) : parts[i][j] # NAMESPACE_SEPARATOR

\* The part list the clients work with.
SentParts == frame[1].id

\* C17: the path of a valid part list is parsed back into that part list:
\* load_namespace_metadata of the path answers with the parts it was
\* formed from.  Two different valid part lists are therefore never parsed
\* into the same part list: each is parsed into itself.
C17_ParseFormatRoundTrip ==
    (last.op = "load_namespace_metadata" /\ ValidParts(SentParts)) =>
        /\ last.arg.namespace = SentParts
        /\ namespace_tuple(format(SentParts)) = SentParts

\* A stored namespace of two parts, one of them with a dot, was just loaded
\* by its path.
C17_Witness ==
    /\ last.op = "load_namespace_metadata"
    /\ last.code = 200
    /\ ValidParts(SentParts)
    /\ Len(SentParts) = 2
    /\ SentParts[1] = << "a", "." >>
    /\ last.arg.namespace = SentParts

\* A part list with an empty part.
HasEmptyPart(parts) == \E i \in 1..Len(parts) : parts[i] = << >>

\* C18: a path with an empty part is refused with MalformedIdentifier by
\* every handler that parses a namespace path, and nothing is changed.
C18_EmptyPartRejected ==
    (/\ last.op \in { "load_namespace_metadata", "list_tables", "drop_namespace" }
     /\ HasEmptyPart(SentParts)) =>
        last.error = "MalformedIdentifier"

\* ------------------------------------------------------------ commit outcomes
\* C21: update_table reports a NoSuchTableError of the commit as 404 and a
\* CommitFailedException as 409, never as a success and never as each
\* other, and in both cases leaves every binding and every metadata file
\* as it was.
C21_NotFoundAndConflictDistinct ==
    [][CommitAnswerStep =>
          /\ last'.error = "NoSuchTable" =>
                last'.code = 404 /\ tables' = tables /\ files' = files
          /\ last'.error = "CommitFailed" =>
                last'.code = 409 /\ tables' = tables /\ files' = files
          /\ last'.code = 404 => last'.error = "NoSuchTable"
          /\ last'.code = 409 => last'.error = "CommitFailed"
          /\ last'.code = 200 => last'.error = ""]_vars

\* A commit was just refused at its publish: a conflict, with the table
\* still bound.
C21_Witness ==
    /\ last.op = "update_table"
    /\ last.error = "CommitFailed"
    /\ last.code = 409
    /\ last.arg = "publish"
    /\ tables[last.id] # NoLoc

\* ------------------------------------------------------------ staged create
\* C22: the step that ends a staged create removes no binding but the one
\* the staged create made: a binding of its identifier to another location,
\* made by another client in between, is still there afterwards, and the
\* staged create ends with its result or TableAlreadyExists.
C22_StagedCreateRemovesOnlyItsOwn ==
    [][\A c \in Clients :
          (pc[c] = "stage_drop" /\ pc'[c] = "idle") =>
             /\ tables[frame[c].id] # frame[c].base =>
                   tables'[frame[c].id] = tables[frame[c].id]
             /\ last'.error \in { "", "TableAlreadyExists" }]_vars

\* ------------------------------------------------------------ commit frame
\* C23: a commit sent to the path of a table works on that table, whatever
\* identifier its body carries, and its publish changes no binding but
\* that of the table it works on: the bindings of all tables other than
\* the one of the path are as they were.
C23_CommitChangesPathTableOnly ==
    [][\A c \in Clients :
          /\ (pc[c] = "idle" /\ pc'[c] = "publish") =>
                \A t \in CommitTargets, n \in Names, rq \in CommitRequests :
                   update_table(c, t[1], n, t[2], rq[1], rq[2]) =>
                      frame'[c].id = path_identifier(t[1], n)
          /\ (pc[c] = "publish" /\ pc'[c] = "idle") =>
                \A i \in Idents \ { frame[c].id } : tables'[i] = tables[i]]_vars

\* ------------------------------------------------------------ rename identifiers
\* C24: what rename_table hands to the catalog determines the request: two
\* requests whose namespaces are different part lists are never served by
\* the same step on the same identifiers.
C24_RenameIdentifiersInjective ==
    [][RenameStep =>
       \A c \in Clients :
          Free(c) =>
             \A r1, r2 \in RenameTargets, n \in Names :
                (rename_table(c, r1[1], n, r1[2], n) /\ rename_table(c, r2[1], n, r2[2], n))
                   => r1 = r2]_vars
====
